---- MODULE Spec2Model ----
(***************************************************************************)
(* Batch inference utility (predict.py): artifact loading, input           *)
(* alignment, preprocessing adapter, inference adapter, result assembly.   *)
(*                                                                         *)
(* Python values are written as their repr strings ("nan", "0", "''",      *)
(* "'foo'"); None is the empty tuple and Some(x) is <<x>>; a dict is a     *)
(* function; a table (pandas DataFrame) is a record of its column         *)
(* sequence, its row count and its rows (functions from column name to     *)
(* cell value).  A call's outcome is Ok(value) or Raise(type, message).    *)
(***************************************************************************)
EXTENDS Integers, Sequences, FiniteSets, TLC

VARIABLES
    pc,       \* "call" before the call under study, "done" after it
    call,     \* the function called and its arguments as passed
    disk,     \* the files the call can read: path -> None or Some(content)
    df,       \* the caller's input table (prepare_input_dataframe adds to it)
    trace,    \* the library calls made so far, in order
    ret,      \* None, or Some(outcome) of the call
    out,      \* run_predictions' result table, None until it is built
    written   \* the output file: None or Some(file)

vars == <<pc, call, disk, df, trace, ret, out, written>>

-----------------------------------------------------------------------------
(* Bounds of the model *)

MaxRows == 2
MaxFeatures == 2

\* probabilities are fixed-point: the integer p stands for p / Scale
Scale == 2

\* the largest class count of a probability matrix, and the largest
\* sample_rows
MaxClasses == 11
MaxSample == 2

-----------------------------------------------------------------------------
(* Program constants *)

\* `proba.shape[1] <= 10`
ProbaColumnLimit == 10

-----------------------------------------------------------------------------
(* Python values *)

None == << >>
Some(x) == <<x>>

NaN == "nan"
NumVals == {"0", "7", "9"}
StrVals == {"''", "'foo'", "'bar'"}

\* cell values of an input table, and the default values metadata may carry
\* (json.load reads the literal NaN as float('nan'))
CellVals == {NaN, "7", "'foo'"}
DefaultVals == {NaN, "9", "'bar'"}

\* feature names, and the column names of an input table
Names == {"a", "b"}
ColumnNames == {"a", "x"}

Ok(v) == [ok |-> TRUE, val |-> v]
Raise(type, msg) == [ok |-> FALSE, exc |-> type, msg |-> msg]

Range(s) == {s[i] : i \in DOMAIN s}

SeqsUpTo(S, n) == UNION {[1..k -> S] : k \in 0..n}

NoDup(s) == \A i, j \in DOMAIN s : s[i] = s[j] => i = j

-----------------------------------------------------------------------------
(* Tables *)

Table(cols, rows) == [cols |-> cols, n |-> Len(rows), rows |-> rows]

Column(t, col) == [i \in 1..t.n |-> t.rows[i][col]]

isna_any(t, col) == \E i \in 1..t.n : t.rows[i][col] = NaN

is_numeric_dtype(t, col) == \A i \in 1..t.n : t.rows[i][col] \in NumVals \cup {NaN}

\* df[col] = value (scalar broadcast); a new column is appended at the end
SetColumn(t, col, value) ==
    [cols |-> IF col \in Range(t.cols) THEN t.cols ELSE Append(t.cols, col),
     n |-> t.n,
     rows |-> [i \in 1..t.n |->
                 [c \in Range(t.cols) \cup {col} |->
                    IF c = col THEN value ELSE t.rows[i][c]]]]

\* df[col] = df[col].fillna(value)
fillna(t, col, value) ==
    [t EXCEPT !.rows = [i \in 1..t.n |->
        [t.rows[i] EXCEPT ![col] = IF @ = NaN THEN value ELSE @]]]

\* df[list(feature_columns)].copy()
Select(t, feature_columns) ==
    [cols |-> feature_columns,
     n |-> t.n,
     rows |-> [i \in 1..t.n |-> [c \in Range(feature_columns) |-> t.rows[i][c]]]]

-----------------------------------------------------------------------------
(* load_pickle_or_joblib *)

\* A file's content is what each deserializer makes of it:
\* [joblib |-> outcome, pickle |-> outcome].
NotFoundMsg(path) == <<"File not found: ", path>>

\* f"Failed to load {path} with joblib or pickle: {e}", e the pickle error
LoadFailedMsg(path, e1, e2) ==
    <<"Failed to load ", path, " with joblib or pickle: ", e2.msg>>

LoadCall(name, path) == [fn |-> name, arg |-> path]

\* pickle tried first, joblib second
load_attempts_mut(fs, path) ==
    IF fs[path] = None THEN << >>
    ELSE IF fs[path][1].pickle.ok THEN <<LoadCall("pickle.load", path)>>
    ELSE <<LoadCall("pickle.load", path), LoadCall("joblib.load", path)>>

\* the deserializers called, in order
load_attempts(fs, path) ==
    IF fs[path] = None THEN << >>
    ELSE IF fs[path][1].joblib.ok THEN <<LoadCall("joblib.load", path)>>
    ELSE <<LoadCall("joblib.load", path), LoadCall("pickle.load", path)>>

load_pickle_or_joblib(fs, path) ==
    IF fs[path] = None
    THEN Raise("FileNotFoundError", NotFoundMsg(path))
    ELSE LET file == fs[path][1]
             attempts == load_attempts(fs, path)
             last == IF attempts[Len(attempts)].fn = "joblib.load"
                     THEN file.joblib ELSE file.pickle
         IN IF last.ok THEN last
            ELSE Raise("RuntimeError", LoadFailedMsg(path, file.joblib, file.pickle))

-----------------------------------------------------------------------------
(* prepare_input_dataframe *)

Truthy(d) == DOMAIN d # {}

dict_get(d, key, default) == IF key \in DOMAIN d THEN d[key] ELSE default

\* only the "feature_defaults" key is consulted
meta_defaults_mut(metadata) ==
    IF metadata # None /\ Truthy(metadata[1])
    THEN dict_get(metadata[1], "feature_defaults", << >>)
    ELSE << >>

\* metadata.get("feature_defaults", {}) or metadata.get("defaults", {})
meta_defaults(metadata) ==
    IF metadata # None /\ Truthy(metadata[1])
    THEN IF Truthy(dict_get(metadata[1], "feature_defaults", << >>))
         THEN metadata[1]["feature_defaults"]
         ELSE dict_get(metadata[1], "defaults", << >>)
    ELSE << >>

RECURSIVE AddMissing(_, _, _)
\* for col in feature_columns: if col not in df.columns: df[col] = default
AddMissing(t, feature_columns, defaults) ==
    IF feature_columns = << >> THEN t
    ELSE LET col == Head(feature_columns)
             t2 == IF col \notin Range(t.cols)
                   THEN SetColumn(t, col, dict_get(defaults, col, NaN))
                   ELSE t
         IN AddMissing(t2, Tail(feature_columns), defaults)

\* one iteration of the fill loop
FillColumn(t, col, defaults) ==
    IF isna_any(t, col)
    THEN IF col \in DOMAIN defaults
         THEN fillna(t, col, defaults[col])
         ELSE IF is_numeric_dtype(t, col)
              THEN fillna(t, col, "0")
              ELSE fillna(t, col, "''")
    ELSE t

RECURSIVE FillAll(_, _, _)
\* for col in df.columns: ...
FillAll(t, cols, defaults) ==
    IF cols = << >> THEN t
    ELSE FillAll(FillColumn(t, Head(cols), defaults), Tail(cols), defaults)

\* the caller's table after the call: missing columns are added in place
prepare_mutated_df(t, feature_columns, metadata) ==
    AddMissing(t, feature_columns, meta_defaults(metadata))

\* the selection step without the restriction to feature_columns
prepare_selected_mut(t, feature_columns, metadata) ==
    prepare_mutated_df(t, feature_columns, metadata)

\* df = df[list(feature_columns)].copy()
prepare_selected(t, feature_columns, metadata) ==
    Select(prepare_mutated_df(t, feature_columns, metadata), feature_columns)

prepare_input_dataframe(t, feature_columns, metadata) ==
    LET selected == prepare_selected(t, feature_columns, metadata)
    IN IF ~NoDup(feature_columns)
       \* df[col] is a DataFrame for a repeated name: `if df[col].isna().any()`
       \* has no truth value
       THEN Raise("ValueError", <<"ambiguous truth value">>)
       ELSE Ok(FillAll(selected, selected.cols, meta_defaults(metadata)))

-----------------------------------------------------------------------------
(* apply_preprocessor *)

\* df.values: the cells in column order, names and index stripped
values(t) ==
    [kind |-> "ndarray", n |-> t.n,
     data |-> [i \in 1..t.n |-> [j \in 1..Len(t.cols) |-> t.rows[i][t.cols[j]]]]]

AsFrame(t) == [kind |-> "DataFrame", n |-> t.n, data |-> t]

\* A preprocessor is what its transform makes of each call shape:
\* [on_frame |-> outcome, on_values |-> outcome].
transform(preprocessor, X) ==
    IF X.kind = "DataFrame" THEN preprocessor.on_frame ELSE preprocessor.on_values

TransformCall(X) == [fn |-> "transform", arg |-> X]

TransformFailedMsg(e, e2) ==
    <<"Preprocessor.transform failed: ", e.msg, "; fallback failed: ", e2.msg>>

\* the fallback retried with the table again
transform_calls_mut(preprocessor, t) ==
    IF transform(preprocessor, AsFrame(t)).ok
    THEN <<TransformCall(AsFrame(t))>>
    ELSE <<TransformCall(AsFrame(t)), TransformCall(AsFrame(t))>>

\* the transform calls made, in order
transform_calls(preprocessor, t) ==
    IF transform(preprocessor, AsFrame(t)).ok
    THEN <<TransformCall(AsFrame(t))>>
    ELSE <<TransformCall(AsFrame(t)), TransformCall(values(t))>>

apply_preprocessor(preprocessor, t) ==
    LET calls == transform_calls(preprocessor, t)
        first == transform(preprocessor, calls[1].arg)
    IN IF first.ok THEN first
       ELSE LET second == transform(preprocessor, calls[2].arg)
            IN IF second.ok THEN second
               ELSE Raise("RuntimeError", TransformFailedMsg(first, second))

-----------------------------------------------------------------------------
(* predict_with_model *)

\* numpy arrays: the dimension count, the shape and the data in row-major
\* order
Vec(data) == [ndim |-> 1, shape |-> <<Len(data)>>, data |-> data]

Mat(n, c, rows) ==
    [ndim |-> 2, shape |-> <<n, c>>,
     data |-> [k \in 1..(n * c) |-> rows[((k - 1) \div c) + 1][((k - 1) % c) + 1]]]

\* proba[i, :] and proba[:, j] of a two-dimensional array (i, j from 1)
Row(A, i) == [j \in 1..A.shape[2] |-> A.data[(i - 1) * A.shape[2] + j]]
Col(A, j) == [i \in 1..A.shape[1] |-> A.data[(i - 1) * A.shape[2] + j]]

\* A model is the attributes it exposes, whether it is an xgboost Booster,
\* and what its methods return on the input at hand; a Booster's predict
\* field is what Booster.predict returns on a DMatrix.
hasattr(model, name) == name \in model.attrs

DMatrix(X) == [kind |-> "DMatrix", n |-> X.n, data |-> X.data]

MethodCall(name, X) == [fn |-> name, arg |-> X]

\* model.<name>(X)
method(model, name, X) ==
    IF ~hasattr(model, name)
    THEN Raise("AttributeError", <<"object has no attribute ", name>>)
    ELSE IF name = "predict_proba" THEN model.predict_proba
    ELSE IF model.booster /\ X.kind # "DMatrix"
         THEN Raise("TypeError", <<"Expecting data to be a DMatrix object">>)
         ELSE model.predict

\* np.vstack([1 - proba, proba]).T
expand_binary(proba) ==
    Mat(proba.shape[1], 2,
        [i \in 1..proba.shape[1] |-> <<Scale - proba.data[i], proba.data[i]>>])

\* np.argmax of one row: the first index (from 0) of the largest entry
argmax(row) ==
    (CHOOSE j \in 1..Len(row) :
        /\ \A k \in 1..Len(row) : row[k] <= row[j]
        /\ \A k \in 1..(j - 1) : row[k] < row[j]) - 1

argmax_rows(proba) == Vec([i \in 1..proba.shape[1] |-> argmax(Row(proba, i))])

UnsupportedMsg == <<"Model does not have a supported predict / predict_proba interface.">>

\* the capability checks in the order predict, predict_proba
predict_branch_mut(model) ==
    IF hasattr(model, "predict") THEN "predict"
    ELSE IF hasattr(model, "predict_proba") THEN "predict_proba"
    ELSE IF model.booster THEN "booster"
    ELSE "none"

\* the dispatch of lines 95, 100 and 108
predict_branch(model) ==
    IF hasattr(model, "predict_proba") THEN "predict_proba"
    ELSE IF hasattr(model, "predict") THEN "predict"
    ELSE IF model.booster THEN "booster"
    ELSE "none"

\* the library calls predict_with_model makes, in order
predict_calls(model, X) ==
    CASE predict_branch(model) = "predict_proba" ->
           IF method(model, "predict_proba", X).ok
           THEN <<MethodCall("predict_proba", X), MethodCall("predict", X)>>
           ELSE <<MethodCall("predict_proba", X)>>
      [] predict_branch(model) = "predict" -> <<MethodCall("predict", X)>>
      [] predict_branch(model) = "booster" ->
           <<MethodCall("DMatrix", X), MethodCall("predict", DMatrix(X))>>
      [] OTHER -> << >>

\* lines 105-117: any exception inside the try is swallowed
booster_branch(model, X) ==
    LET proba == method(model, "predict", DMatrix(X))
    IN IF ~proba.ok THEN Raise("RuntimeError", UnsupportedMsg)
       ELSE LET proba2 == IF proba.val.ndim = 1 THEN expand_binary(proba.val)
                          ELSE proba.val
            IN IF proba2.shape[2] = 0  \* argmax of an empty sequence
               THEN Raise("RuntimeError", UnsupportedMsg)
               ELSE Ok(<<argmax_rows(proba2), Some(proba2)>>)

predict_with_model(model, X) ==
    CASE predict_branch(model) = "predict_proba" ->
           LET proba == method(model, "predict_proba", X)
               preds == method(model, "predict", X)
           IN IF ~proba.ok THEN proba
              ELSE IF ~preds.ok THEN preds
              ELSE Ok(<<preds.val, Some(proba.val)>>)
      [] predict_branch(model) = "predict" ->
           LET preds == method(model, "predict", X)
           IN IF ~preds.ok THEN preds ELSE Ok(<<preds.val, None>>)
      [] predict_branch(model) = "booster" -> booster_branch(model, X)
      [] OTHER -> Raise("RuntimeError", UnsupportedMsg)

-----------------------------------------------------------------------------
(* run_predictions *)

\* str(x) of a feature array element
py_str(x) ==
    CASE x = "'a'" -> "a"
      [] x = "'b'" -> "b"
      [] OTHER -> x

\* [str(x) for x in arr.tolist()]
load_features(fs, path) ==
    [i \in DOMAIN fs[path][1] |-> py_str(fs[path][1][i])]

\* json.load(f)
load_metadata(fs, path) == fs[path][1]

\* pd.read_csv(input_csv): the table under a RangeIndex
read_csv(fs, path) == fs[path][1]

LengthMismatch == Raise("ValueError", <<"Length of values does not match length of index">>)

\* out[name] = vals without the length check: the table takes the values'
\* length
assign_column_mut(o, name, vals) ==
    Ok([cols |-> IF name \in Range(o.cols) THEN o.cols ELSE Append(o.cols, name),
        n |-> Len(vals),
        rows |-> [i \in 1..Len(vals) |->
                    [c \in Range(o.cols) \cup {name} |->
                       IF c = name THEN vals[i]
                       ELSE IF i <= o.n THEN o.rows[i][c] ELSE NaN]]])

\* out[name] = vals, vals a sequence: a table whose index is empty takes the
\* values' index (its other columns reindexed to missing); otherwise the
\* lengths must agree
assign_column(o, name, vals) ==
    IF o.n # 0 /\ Len(vals) # o.n THEN LengthMismatch
    ELSE Ok([cols |-> IF name \in Range(o.cols) THEN o.cols ELSE Append(o.cols, name),
             n |-> Len(vals),
             rows |-> [i \in 1..Len(vals) |->
                         [c \in Range(o.cols) \cup {name} |->
                            IF c = name THEN vals[i]
                            ELSE IF i <= o.n THEN o.rows[i][c] ELSE NaN]]])

\* f"proba_class_{i}"
ClassColumn(i) ==
    <<"proba_class_0", "proba_class_1", "proba_class_2", "proba_class_3",
      "proba_class_4", "proba_class_5", "proba_class_6", "proba_class_7",
      "proba_class_8", "proba_class_9", "proba_class_10", "proba_class_11",
      "proba_class_12", "proba_class_13">>[i + 1]

\* list(proba): the rows of a matrix, the elements of a vector
list(A) ==
    IF A.ndim = 2 THEN [i \in 1..A.shape[1] |-> Row(A, i)] ELSE A.data

RECURSIVE AddClassColumns(_, _, _)
\* for i in range(proba.shape[1]): out[f"proba_class_{i}"] = proba[:, i]
AddClassColumns(o, proba, i) ==
    IF i >= proba.shape[2] THEN Ok(o)
    ELSE LET o2 == assign_column(o, ClassColumn(i), Col(proba, i + 1))
         IN IF ~o2.ok THEN o2 ELSE AddClassColumns(o2.val, proba, i + 1)

\* every two-dimensional matrix is expanded, whatever its width
expands_mut(proba) == proba.ndim = 2

\* proba.ndim == 2 and proba.shape[1] <= 10
expands(proba) == proba.ndim = 2 /\ proba.shape[2] <= ProbaColumnLimit

\* lines 151-159: the result table over the input's index
build_out(n, preds, proba) ==
    LET o0 == [cols |-> << >>, n |-> n, rows |-> [i \in 1..n |-> << >>]]
        o1 == assign_column(o0, "prediction", preds.data)
    IN IF ~o1.ok \/ proba = None THEN o1
       ELSE IF expands(proba[1]) THEN AddClassColumns(o1.val, proba[1], 0)
       ELSE assign_column(o1.val, "proba", list(proba[1]))

\* df.loc[: k - 1] under a RangeIndex: the first k rows
loc_upto(t, k) ==
    LET m == IF k < t.n THEN (IF k < 0 THEN 0 ELSE k) ELSE t.n
    IN [cols |-> t.cols, n |-> m, rows |-> [i \in 1..m |-> t.rows[i]]]

\* pd.concat([left, right], axis=1) of two tables under RangeIndexes
concat_columns(left, right) ==
    LET m == IF left.n > right.n THEN left.n ELSE right.n
    IN [cols |-> left.cols \o right.cols,
        n |-> m,
        rows |-> [i \in 1..m |->
                    [c \in Range(left.cols) \cup Range(right.cols) |->
                       IF c \in Range(right.cols)
                       THEN (IF i <= right.n THEN right.rows[i][c] ELSE NaN)
                       ELSE (IF i <= left.n THEN left.rows[i][c] ELSE NaN)]]]

\* out.to_csv(output_csv, index=False)
to_csv(o, path) ==
    [path |-> path, header |-> o.cols,
     lines |-> [i \in 1..o.n |-> [j \in 1..Len(o.cols) |-> o.rows[i][o.cols[j]]]]]

Outcome(r, t, d, o, w) == [ret |-> r, trace |-> t, df |-> d, out |-> o, written |-> w]

\* lines 141-167, the artifacts loaded and the input read
run_loaded(a, model, feature_columns, preprocessor, metadata, table, t0) ==
    LET prepared == prepare_input_dataframe(table, feature_columns, Some(metadata))
        mutated == prepare_mutated_df(table, feature_columns, Some(metadata))
    IN IF ~prepared.ok THEN Outcome(prepared, t0, mutated, None, None)
       ELSE
       LET X == IF preprocessor # None
                THEN apply_preprocessor(preprocessor[1], prepared.val)
                ELSE Ok(values(prepared.val))
           t1 == IF preprocessor # None
                 THEN t0 \o transform_calls(preprocessor[1], prepared.val)
                 ELSE t0
       IN IF ~X.ok THEN Outcome(X, t1, mutated, None, None)
          ELSE
          LET p == predict_with_model(model, X.val)
              t2 == t1 \o predict_calls(model, X.val)
          IN IF ~p.ok THEN Outcome(p, t2, mutated, None, None)
             ELSE
             LET o == build_out(table.n, p.val[1], p.val[2])
             IN IF ~o.ok THEN Outcome(o, t2, mutated, None, None)
                ELSE
                LET sample_out ==
                        concat_columns(loc_upto(mutated, a.sample_rows), o.val)
                IN Outcome(Ok(sample_out), t2, mutated, Some(o.val),
                           IF a.output_csv # None
                           THEN Some(to_csv(o.val, a.output_csv[1]))
                           ELSE None)

\* lines 131-139: load the artifacts, read the input
run_predictions(fs, a) ==
    LET model == load_pickle_or_joblib(fs, a.model_path)
        t0 == load_attempts(fs, a.model_path)
    IN IF ~model.ok THEN Outcome(model, t0, None, None, None)
       ELSE
       LET feature_columns == load_features(fs, a.feature_path)
           preprocessor == IF a.preprocessor_path # None
                           THEN load_pickle_or_joblib(fs, a.preprocessor_path[1])
                           ELSE Ok(None)
           t1 == IF a.preprocessor_path # None
                 THEN t0 \o load_attempts(fs, a.preprocessor_path[1])
                 ELSE t0
       IN IF ~preprocessor.ok THEN Outcome(preprocessor, t1, None, None, None)
          ELSE run_loaded(a, model.val, feature_columns,
                          IF a.preprocessor_path # None
                          THEN Some(preprocessor.val) ELSE None,
                          IF a.meta_path # None
                          THEN load_metadata(fs, a.meta_path[1]) ELSE << >>,
                          read_csv(fs, a.input_csv), t1)

-----------------------------------------------------------------------------
(* Calls of prepare_input_dataframe *)

TablesOver(cols, n, vals) ==
    {[cols |-> cols, n |-> n, rows |-> r] : r \in [1..n -> [Range(cols) -> vals]]}

InputTables ==
    UNION {TablesOver(cols, n, CellVals) :
             cols \in {c \in SeqsUpTo(ColumnNames, Cardinality(ColumnNames)) : NoDup(c)},
             n \in 0..MaxRows}

Dicts == UNION {[keys -> DefaultVals] : keys \in SUBSET Names}

MetadataKeys == {"feature_defaults", "defaults"}

Metadatas ==
    {None, Some(<< >>)}
      \cup {Some([k \in {key} |-> d]) : key \in MetadataKeys, d \in Dicts}
      \cup {Some([k \in MetadataKeys |-> IF k = "feature_defaults" THEN d1 ELSE d2]) :
               d1 \in {<< >>, [c \in {"a"} |-> "9"]},
               d2 \in {<< >>, [c \in {"a"} |-> "'bar'"], [c \in {"b"} |-> "'bar'"]}}

InitAlign ==
    /\ pc = "call"
    /\ df \in InputTables
    /\ call \in {[fn |-> "prepare_input_dataframe", df |-> df,
                   feature_columns |-> f, metadata |-> m] :
                     f \in SeqsUpTo(Names, MaxFeatures), m \in Metadatas}
    /\ disk = << >>
    /\ trace = << >>
    /\ ret = None
    /\ out = None
    /\ written = None

\* prepared = prepare_input_dataframe(df, feature_columns, metadata)
CallPrepare ==
    /\ pc = "call"
    /\ call.fn = "prepare_input_dataframe"
    /\ df' = prepare_mutated_df(df, call.feature_columns, call.metadata)
    /\ ret' = Some(prepare_input_dataframe(df, call.feature_columns, call.metadata))
    /\ pc' = "done"
    /\ UNCHANGED <<call, disk, trace, out, written>>

NextAlign == CallPrepare

SpecAlign == InitAlign /\ [][NextAlign]_vars

Returned(fn) == pc = "done" /\ call.fn = fn /\ ret[1].ok

\* C1: the table prepare_input_dataframe returns has exactly the feature
\* list as its column sequence (same names, same order), with the input's
\* row count: absent features are added, other input columns are dropped.
C1_ColumnsEqualFeatureList ==
    Returned("prepare_input_dataframe") =>
        /\ ret[1].val.cols = call.feature_columns
        /\ ret[1].val.n = call.df.n
        /\ \A i \in 1..ret[1].val.n :
              DOMAIN ret[1].val.rows[i] = Range(call.feature_columns)

C1_Witness ==
    /\ Returned("prepare_input_dataframe")
    /\ Len(call.feature_columns) = 2
    /\ call.df.n > 0
    /\ \E c \in Range(call.feature_columns) : c \notin Range(call.df.cols)
    /\ \E c \in Range(call.df.cols) : c \notin Range(call.feature_columns)

\* the default mapping supplied under exactly one of the two key names
SingleKey(metadata) ==
    metadata # None /\ \E k \in MetadataKeys : DOMAIN metadata[1] = {k}

Supplied(metadata) ==
    metadata[1][CHOOSE k \in MetadataKeys : DOMAIN metadata[1] = {k}]

MissingInInput(i, col) ==
    col \notin Range(call.df.cols) \/ call.df.rows[i][col] = NaN

\* C2: with defaults D supplied under either key name, every cell of a
\* feature in D that was absent or missing in the input holds D's value,
\* and the type-based fill (0 / empty string) reaches only the missing
\* cells of features without a metadata default.
C2_MetadataDefaultsTakePrecedence ==
    (Returned("prepare_input_dataframe") /\ SingleKey(call.metadata)) =>
        LET D == Supplied(call.metadata)
            t == ret[1].val
        IN \A col \in Range(call.feature_columns) : \A i \in 1..t.n :
              /\ (col \in DOMAIN D /\ MissingInInput(i, col))
                    => t.rows[i][col] = D[col]
              /\ t.rows[i][col] \in {"0", "''"}
                    => (col \notin DOMAIN D /\ MissingInInput(i, col))
              /\ (col \notin DOMAIN D /\ MissingInInput(i, col))
                    => t.rows[i][col] \in {"0", "''"}

C2_Witness ==
    /\ Returned("prepare_input_dataframe")
    /\ call.metadata # None
    /\ DOMAIN call.metadata[1] = {"defaults"}
    /\ call.feature_columns = <<"b", "a">>
    /\ call.metadata[1]["defaults"] = [c \in {"a"} |-> "'bar'"]
    /\ call.df.cols = <<"a">>
    /\ call.df.n = 2
    /\ call.df.rows[1]["a"] = NaN
    /\ call.df.rows[2]["a"] = "7"
    /\ ret[1].val.rows[1] = [c \in {"a", "b"} |-> IF c = "a" THEN "'bar'" ELSE "0"]
    /\ ret[1].val.rows[2] = [c \in {"a", "b"} |-> IF c = "a" THEN "7" ELSE "0"]

\* C3 (as claimed): whenever prepare_input_dataframe returns, no cell of
\* the returned table holds the missing-value sentinel.
C3_NoMissingValues ==
    Returned("prepare_input_dataframe") =>
        \A i \in 1..ret[1].val.n : \A col \in Range(ret[1].val.cols) :
            ret[1].val.rows[i][col] # NaN

-----------------------------------------------------------------------------
(* Calls of load_pickle_or_joblib *)

Paths == {"model.pkl", "preprocess_pipeline.pkl"}

ErrorMsgs == {"Ran out of input", "invalid load key", "No module named 'xgboost'"}

LoadOutcomes(objects) ==
    {Ok(o) : o \in objects} \cup {Raise("Exception", m) : m \in ErrorMsgs}

Files(objects) ==
    {None} \cup {Some([joblib |-> j, pickle |-> p]) :
                   j \in LoadOutcomes(objects), p \in LoadOutcomes(objects)}

InitLoad ==
    /\ pc = "call"
    /\ call \in {[fn |-> "load_pickle_or_joblib", path |-> p] : p \in Paths}
    /\ disk \in [Paths -> Files({"XGBClassifier", "Pipeline"})]
    /\ df = None
    /\ trace = << >>
    /\ ret = None
    /\ out = None
    /\ written = None

\* obj = load_pickle_or_joblib(path)
CallLoad ==
    /\ pc = "call"
    /\ call.fn = "load_pickle_or_joblib"
    /\ trace' = trace \o load_attempts(disk, call.path)
    /\ ret' = Some(load_pickle_or_joblib(disk, call.path))
    /\ pc' = "done"
    /\ UNCHANGED <<call, disk, df, out, written>>

NextLoad == CallLoad

SpecLoad == InitLoad /\ [][NextLoad]_vars

Done(fn) == pc = "done" /\ call.fn = fn

\* C8 (as claimed): not-found error naming the path with no attempt made;
\* joblib first, pickle only after joblib failed; the first result that
\* parses is returned; the deserialization error is raised only after both
\* failed and its message contains both underlying causes.
C8_LoadOrder ==
    Done("load_pickle_or_joblib") =>
        LET f == disk[call.path] IN
        /\ f = None => /\ ret[1] = Raise("FileNotFoundError", NotFoundMsg(call.path))
                       /\ trace = << >>
        /\ f # None =>
              /\ trace \in {<<LoadCall("joblib.load", call.path)>>,
                            <<LoadCall("joblib.load", call.path),
                              LoadCall("pickle.load", call.path)>>}
              /\ f[1].joblib.ok =>
                    (ret[1] = f[1].joblib /\ trace = <<LoadCall("joblib.load", call.path)>>)
              /\ (~f[1].joblib.ok /\ f[1].pickle.ok) => ret[1] = f[1].pickle
              /\ (~ret[1].ok) <=> (~f[1].joblib.ok /\ ~f[1].pickle.ok)
              /\ (~ret[1].ok) => (ret[1].exc = "RuntimeError" /\ Len(trace) = 2)

C8_BothCausesInMessage ==
    C8_LoadOrder /\
    ((Done("load_pickle_or_joblib") /\ ~ret[1].ok /\ ret[1].exc = "RuntimeError") =>
        /\ disk[call.path][1].joblib.msg \in Range(ret[1].msg)
        /\ disk[call.path][1].pickle.msg \in Range(ret[1].msg))

\* C8 (amended): as claimed, except that the deserialization error's message
\* carries the pickle failure's cause only; the joblib failure is discarded.
C8_PickleCauseOnly ==
    C8_LoadOrder /\
    ((Done("load_pickle_or_joblib") /\ ~ret[1].ok /\ ret[1].exc = "RuntimeError") =>
        ret[1].msg = <<"Failed to load ", call.path, " with joblib or pickle: ",
                       disk[call.path][1].pickle.msg>>)

C8_Witness ==
    /\ Done("load_pickle_or_joblib")
    /\ ~ret[1].ok
    /\ ret[1].exc = "RuntimeError"
    /\ Len(trace) = 2
    /\ trace[2].fn = "pickle.load"
    /\ disk[call.path][1].joblib.msg # disk[call.path][1].pickle.msg

-----------------------------------------------------------------------------
(* Calls of apply_preprocessor *)

\* what a transform may hand back: the matrix it was given, a matrix with
\* the last row filtered out, or an error
Matrix(n) == [kind |-> "ndarray", n |-> n, data |-> [i \in 1..n |-> <<"7">>]]

TransformOutcomes ==
    {Ok(Matrix(n)) : n \in 0..MaxRows}
      \cup {Raise("Exception", m) :
               m \in {"could not convert string to float", "columns are missing"}}

Preprocessors == [on_frame : TransformOutcomes, on_values : TransformOutcomes]

PreparedTables ==
    UNION {TablesOver(cols, n, {"7", "'foo'"}) :
             cols \in {<<"a">>, <<"b", "a">>}, n \in 0..MaxRows}

InitPreprocess ==
    /\ pc = "call"
    /\ df \in PreparedTables
    /\ call \in {[fn |-> "apply_preprocessor", preprocessor |-> p, df |-> df] :
                   p \in Preprocessors}
    /\ disk = << >>
    /\ trace = << >>
    /\ ret = None
    /\ out = None
    /\ written = None

\* X = apply_preprocessor(preprocessor, df)
CallPreprocess ==
    /\ pc = "call"
    /\ call.fn = "apply_preprocessor"
    /\ trace' = trace \o transform_calls(call.preprocessor, df)
    /\ ret' = Some(apply_preprocessor(call.preprocessor, df))
    /\ pc' = "done"
    /\ UNCHANGED <<call, disk, df, out, written>>

NextPreprocess == CallPreprocess

SpecPreprocess == InitPreprocess /\ [][NextPreprocess]_vars

\* C9: transform is called first with the table as it is and that result is
\* returned if the call succeeds; only if it fails is transform called once
\* more, with the table's value matrix, and that result returned if it
\* succeeds; never more than two calls; only when both fail is one error
\* raised, naming both causes.
C9_TransformFallback ==
    Done("apply_preprocessor") =>
        LET p == call.preprocessor
            asis == TransformCall([kind |-> "DataFrame", n |-> call.df.n, data |-> call.df])
            stripped == TransformCall(values(call.df))
        IN /\ Len(trace) \in {1, 2}
           /\ trace[1] = asis
           /\ p.on_frame.ok => (trace = <<asis>> /\ ret[1] = p.on_frame)
           /\ ~p.on_frame.ok =>
                 /\ trace = <<asis, stripped>>
                 /\ p.on_values.ok => ret[1] = p.on_values
                 /\ ~p.on_values.ok =>
                       /\ ~ret[1].ok
                       /\ ret[1].exc = "RuntimeError"
                       /\ p.on_frame.msg \in Range(ret[1].msg)
                       /\ p.on_values.msg \in Range(ret[1].msg)
           /\ ~ret[1].ok => (~p.on_frame.ok /\ ~p.on_values.ok)

C9_Witness ==
    /\ Done("apply_preprocessor")
    /\ ~ret[1].ok
    /\ Len(trace) = 2
    /\ call.preprocessor.on_frame.msg # call.preprocessor.on_values.msg
    /\ call.df.n = 2
    /\ Len(call.df.cols) = 2

-----------------------------------------------------------------------------
(* Calls of predict_with_model *)

LabelVecs(n) == {Vec(d) : d \in [1..n -> 0..1]}

\* one-dimensional arrays of probabilities in [0, 1]
ProbVecs(n) == {Vec(d) : d \in [1..n -> 0..Scale]}

\* two-class probability matrices whose rows sum to 1
BinaryMats(n) == {expand_binary(v) : v \in ProbVecs(n)}

PredictError == Raise("ValueError", <<"X has 1 features, but 2 are expected">>)

NoMethod(name) == Raise("AttributeError", <<"object has no attribute ", name>>)

\* scikit-learn style estimators, and objects exposing neither method
Estimators(n) ==
    {[attrs |-> a, booster |-> FALSE, predict |-> p, predict_proba |-> q] :
        a \in {{"predict_proba", "predict"}},
        p \in {Ok(v) : v \in LabelVecs(n)} \cup {PredictError},
        q \in {Ok(m) : m \in BinaryMats(n)} \cup {PredictError}}
    \cup
    {[attrs |-> {"predict"}, booster |-> FALSE, predict |-> p,
      predict_proba |-> NoMethod("predict_proba")] :
        p \in {Ok(v) : v \in LabelVecs(n)} \cup {PredictError}}
    \cup
    {[attrs |-> {"predict_proba"}, booster |-> FALSE, predict |-> NoMethod("predict"),
      predict_proba |-> q] :
        q \in {Ok(m) : m \in BinaryMats(n)} \cup {PredictError}}
    \cup
    {[attrs |-> {}, booster |-> FALSE, predict |-> NoMethod("predict"),
      predict_proba |-> NoMethod("predict_proba")]}

\* xgboost.Booster defines predict and no predict_proba
Boosters(n) ==
    {[attrs |-> {"predict"}, booster |-> TRUE, predict |-> Ok(raw),
      predict_proba |-> NoMethod("predict_proba")] :
        raw \in ProbVecs(n) \cup BinaryMats(n)}

Inputs ==
    {Matrix(n) : n \in 1..MaxRows}
      \cup {[kind |-> "DataFrame", n |-> n, data |-> Matrix(n).data] : n \in 1..MaxRows}

InitPredict ==
    /\ pc = "call"
    /\ call \in {[fn |-> "predict_with_model", model |-> m, X |-> x] :
                   m \in UNION {Estimators(n) \cup Boosters(n) : n \in 1..MaxRows},
                   x \in Inputs}
    /\ disk = << >>
    /\ df = None
    /\ trace = << >>
    /\ ret = None
    /\ out = None
    /\ written = None

\* preds, proba = predict_with_model(model, X)
CallPredict ==
    /\ pc = "call"
    /\ call.fn = "predict_with_model"
    /\ trace' = trace \o predict_calls(call.model, call.X)
    /\ ret' = Some(predict_with_model(call.model, call.X))
    /\ pc' = "done"
    /\ UNCHANGED <<call, disk, df, out, written>>

NextPredict == CallPredict

SpecPredict == InitPredict /\ [][NextPredict]_vars

C5_BoosterBinaryExpansion ==
    (/\ Done("predict_with_model")
     /\ call.model.booster
     /\ call.model.predict.ok
     /\ call.model.predict.val.ndim = 1) =>
        LET p == call.model.predict.val.data
            rows == [i \in 1..Len(p) |-> <<Scale - p[i], p[i]>>]
            labels == [i \in 1..Len(p) |-> IF p[i] > Scale - p[i] THEN 1 ELSE 0]
        IN ret[1] = Ok(<<Vec(labels), Some(Mat(Len(p), 2, rows))>>)

-----------------------------------------------------------------------------
(* Runs of run_predictions *)

\* class counts: a few small ones, and those around the column limit
ClassCounts == (0..2) \cup ((ProbaColumnLimit - 1)..MaxClasses)

\* models answering with n rows: estimators with a probability matrix or a
\* one-dimensional probability array, label-only estimators, failing
\* estimators, Boosters, objects with neither method
RunModels(n) ==
    LET labels == Ok(Vec([i \in 1..n |-> i % 2]))
        matrix(c) == Mat(n, c, [i \in 1..n |-> [j \in 1..c |-> (i + j) % (Scale + 1)]])
        vector == Vec([i \in 1..n |-> i % (Scale + 1)])
    IN {[attrs |-> {"predict_proba", "predict"}, booster |-> FALSE,
         predict |-> labels, predict_proba |-> Ok(q)] :
           q \in {matrix(c) : c \in ClassCounts} \cup {vector}}
       \cup {[attrs |-> {"predict"}, booster |-> b, predict |-> r,
              predict_proba |-> NoMethod("predict_proba")] :
                b \in BOOLEAN, r \in {labels, PredictError}}
       \cup {[attrs |-> {}, booster |-> FALSE, predict |-> NoMethod("predict"),
              predict_proba |-> NoMethod("predict_proba")]}

Saved(obj) == Some([joblib |-> Ok(obj), pickle |-> Ok(obj)])

Corrupt ==
    Some([joblib |-> Raise("Exception", "invalid load key"),
          pickle |-> Raise("Exception", "Ran out of input")])

\* the model file: missing, unreadable, or a model answering with n rows
ModelFiles(n) == {None, Corrupt} \cup {Saved(m) : m \in RunModels(n)}

\* preprocessors for an n-row table: one that wants the value matrix and
\* may filter rows out, and one that fails on both call shapes
RunPreprocessors(n) ==
    {[on_frame |-> Raise("Exception", "columns are missing"), on_values |-> Ok(Matrix(k))] :
        k \in 0..n}
    \cup {[on_frame |-> Raise("Exception", "columns are missing"),
           on_values |-> Raise("Exception", "could not convert string to float")]}

\* the row count of the matrix that reaches the model
InferenceRows(p, t) ==
    IF p # None /\ p[1].joblib.val.on_values.ok
    THEN p[1].joblib.val.on_values.val.n
    ELSE t.n

FeatureArrays == {f \in SeqsUpTo({"'a'", "'b'"}, MaxFeatures) : NoDup(f)}

RunMetadatas == {<< >>, [k \in {"feature_defaults"} |-> [c \in {"b"} |-> "9"]]}

\* input files: a header row, then the rows
RunTables ==
    UNION {TablesOver(<<"a">>, n, {NaN}) \cup TablesOver(<<"b", "a">>, n, {"7"}) :
             n \in 0..MaxRows}

RunCalls ==
    [fn : {"run_predictions"},
     model_path : {"model.pkl"},
     feature_path : {"feature_columns.npy"},
     preprocessor_path : {None, Some("preprocess_pipeline.pkl")},
     meta_path : {None, Some("model_meta.json")},
     input_csv : {"input.csv"},
     output_csv : {None, Some("out.csv")},
     sample_rows : 1..MaxSample]

RunDisks(a) ==
    {[path \in {"model.pkl", "feature_columns.npy", "preprocess_pipeline.pkl",
                "model_meta.json", "input.csv"} |->
        CASE path = "model.pkl" -> m
          [] path = "feature_columns.npy" -> Some(f)
          [] path = "preprocess_pipeline.pkl" -> p
          [] path = "model_meta.json" -> j
          [] OTHER -> Some(t)] :
       t \in RunTables,
       f \in FeatureArrays,
       p \in IF a.preprocessor_path = None THEN {None}
             ELSE {Saved(q) : q \in UNION {RunPreprocessors(n) : n \in 0..MaxRows}},
       j \in IF a.meta_path = None THEN {None}
             ELSE {Some(d) : d \in RunMetadatas \ {<< >>}},
       m \in UNION {ModelFiles(n) : n \in 0..MaxRows}}

\* an estimator answers with one row per row of the matrix it is given, and
\* a transform returns at most the rows it was given
Consistent(fs) ==
    LET t == fs["input.csv"][1]
        p == fs["preprocess_pipeline.pkl"]
        m == fs["model.pkl"]
    IN /\ (p # None /\ p[1].joblib.val.on_values.ok)
            => p[1].joblib.val.on_values.val.n <= t.n
       /\ (m # None /\ m[1].joblib.ok)
            => m \in ModelFiles(InferenceRows(p, t))

Init ==
    /\ pc = "call"
    /\ call \in RunCalls
    /\ disk \in {fs \in RunDisks(call) : Consistent(fs)}
    /\ df = None
    /\ trace = << >>
    /\ ret = None
    /\ out = None
    /\ written = None

\* sample_out = run_predictions(...)
CallRun ==
    /\ pc = "call"
    /\ call.fn = "run_predictions"
    /\ LET r == run_predictions(disk, call)
       IN /\ ret' = Some(r.ret)
          /\ trace' = trace \o r.trace
          /\ df' = r.df
          /\ out' = r.out
          /\ written' = r.written
    /\ pc' = "done"
    /\ UNCHANGED <<call, disk>>

Next == CallRun

Spec == Init /\ [][Next]_vars

\* the model run_predictions loaded, and the input table as read
LoadedModel ==
    LET f == disk[call.model_path][1]
    IN IF f.joblib.ok THEN f.joblib.val ELSE f.pickle.val

InputTable == disk[call.input_csv][1]

Completed == Done("run_predictions") /\ ret[1].ok

\* C6: the result table always has a prediction column; probabilities of
\* at most 10 columns give one proba_class_i column per class and no proba
\* column; any other probabilities give the single column proba, holding
\* one probability vector per row; without probabilities there is only
\* prediction.
C6_ProbabilityColumns ==
    Completed =>
        LET o == out[1]
            m == LoadedModel
        IN /\ o.cols # << >> /\ o.cols[1] = "prediction"
           /\ "predict_proba" \notin m.attrs => o.cols = <<"prediction">>
           /\ "predict_proba" \in m.attrs =>
                LET P == m.predict_proba.val
                IN IF P.ndim = 2 /\ P.shape[2] <= 10
                   THEN /\ o.cols = <<"prediction">>
                                      \o [j \in 1..P.shape[2] |-> ClassColumn(j - 1)]
                        /\ \A i \in 1..o.n : \A j \in 1..P.shape[2] :
                              o.rows[i][ClassColumn(j - 1)] = P.data[(i - 1) * P.shape[2] + j]
                   ELSE /\ o.cols = <<"prediction", "proba">>
                        /\ \A i \in 1..o.n :
                              o.rows[i]["proba"] =
                                 IF P.ndim = 2
                                 THEN [j \in 1..P.shape[2] |-> P.data[(i - 1) * P.shape[2] + j]]
                                 ELSE P.data[i]

C6_Witness ==
    /\ Completed
    /\ InputTable.n = 2
    /\ LoadedModel.predict_proba.ok
    /\ LoadedModel.predict_proba.val.shape = <<2, 11>>
    /\ out[1].cols = <<"prediction", "proba">>
    /\ Len(out[1].rows[2]["proba"]) = 11

\* C7: whenever run_predictions completes on an input of at least one row,
\* the result table, and the output file when one is asked for, has one row
\* per input row, in the input's order.
C7_OneRowPerInputRow ==
    (Completed /\ InputTable.n >= 1) =>
        LET labels == LoadedModel.predict.val.data
        IN /\ out[1].n = InputTable.n
           /\ \A i \in 1..InputTable.n : out[1].rows[i]["prediction"] = labels[i]
           /\ written # None <=> call.output_csv # None
           /\ written # None =>
                 /\ written[1].path = call.output_csv[1]
                 /\ written[1].header = out[1].cols
                 /\ Len(written[1].lines) = InputTable.n
                 /\ \A i \in 1..InputTable.n : written[1].lines[i][1] = labels[i]

C7_Witness ==
    /\ Completed
    /\ InputTable.n = 2
    /\ written # None
    /\ Len(written[1].lines) = 2
    /\ call.preprocessor_path # None

\* C10 (as claimed): the preview is bounded in size: beside the first K
\* raw input rows stand the first K result rows, so it has min(K, N) rows
\* for an N-row input and never more than K.
C10_PreviewBounded ==
    Completed =>
        LET K == call.sample_rows
            N == InputTable.n
        IN /\ ret[1].val.n = IF K < N THEN K ELSE N
           /\ ret[1].val.n <= K

\* C10 (as claimed, the columns): the preview's input part holds the
\* input's original columns only.
C10_PreviewOriginalColumns ==
    Completed => ret[1].val.cols = InputTable.cols \o out[1].cols

====
